---- MODULE Spec2Model ----
(***************************************************************************)
(* Model of src/main.py: DHInstantOdooDatabaseBackup.                      *)
(*                                                                         *)
(* One call of execute() over a loaded configuration: for each system the  *)
(* retention sweep (cleanup_old_backups), then the failover over its       *)
(* sources (backup_db_with_failover), each source downloaded with up to    *)
(* three attempts (_download_backup).                                      *)
(*                                                                         *)
(* Strings are sequences of tokens.  A token stands for a run of           *)
(* characters that holds no "_", "/" or "*" (or is exactly one of them),   *)
(* so that prefixes, the glob of the sweep and the replacements of         *)
(* _build_output_path are computed on the text, not assumed.               *)
(*                                                                         *)
(* Spec is execute() over a configuration; FairSpec is Spec with the       *)
(* thread of execute() going on; SweepSpec is cleanup_old_backups called   *)
(* twice for one system, over a range of retention rules.                  *)
(***************************************************************************)
EXTENDS Integers, Sequences, FiniteSets, TLC

VARIABLES
    systems,    \* self.systems: the loaded configuration (a sequence)
    fs,         \* the files and directories below the storage directories
    dirs,       \* the storage directories that exist
    clock,      \* datetime.now(), in seconds
    pc,         \* position of execute()
    ti,         \* index of the system execute() is at
    si,         \* index of the source backup_db_with_failover is at
    attempt,    \* the attempt variable of _download_backup
    out_path,   \* out_path of the current source (a name below its directory)
    exc,        \* the exception the except handler is about to handle
    last_exc,   \* last_exc of _download_backup
    raised,     \* the failure _download_backup raised last
    result,     \* what backup_db_with_failover returned for system ti
    results,    \* the FINAL RESULT of each system reported so far
    report,     \* what the last cleanup_old_backups did
    fs0,        \* fs when the failover of system ti started
    errs0,      \* unlinkErrs when the failover of system ti started
    unlinkErrs, \* number of unlink() calls that raised OSError so far
    trace       \* the operations carried out so far, in order

vars == <<systems, fs, dirs, clock, pc, ti, si, attempt, out_path, exc, last_exc,
          raised, result, results, report, fs0, errs0, unlinkErrs, trace>>

----------------------------------------------------------------------------
(* Bounds of the model *)

\* at most this many systems in the configuration
MaxTargets == 2
\* at most this many sources per system
MaxSources == 3
\* at most this many unlink() calls fail with OSError in one run
MaxUnlinkFailures == 1

(* Constants of the program *)

\* faulty variant: range(1, 5): one attempt more
MaxAttempts_OneMore == 3 + 1

\* range(1, 4): three attempts per source
MaxAttempts == 3
\* a backup file smaller than this is rejected
MinBackupSize == 1024

\* the clock when execute() starts: day 400, 01:00:00
StartTime == 400 * 86400 + 3600

None == <<>>

----------------------------------------------------------------------------
(* RetentionConfig.to_timedelta *)

\* the unit strings, one token per character
U_second  == <<"s","e","c","o","n","d">>
U_seconds == <<"s","e","c","o","n","d","s">>
U_minute  == <<"m","i","n","u","t","e">>
U_minutes == <<"m","i","n","u","t","e","s">>
U_hour    == <<"h","o","u","r">>
U_hours   == <<"h","o","u","r","s">>
U_day     == <<"d","a","y">>
U_days    == <<"d","a","y","s">>

UNIT_SECONDS ==
    [k \in {U_second, U_seconds, U_minute, U_minutes,
            U_hour, U_hours, U_day, U_days} |->
        CASE k \in {U_second, U_seconds} -> 1
          [] k \in {U_minute, U_minutes} -> 60
          [] k \in {U_hour, U_hours}     -> 3600
          [] k \in {U_day, U_days}       -> 86400]

\* str.lower(), on the letters the model's unit strings use
LowerChar(c) ==
    CASE c = "D" -> "d"
      [] c = "A" -> "a"
      [] c = "Y" -> "y"
      [] c = "S" -> "s"
      [] c = "H" -> "h"
      [] OTHER   -> c

Lower(s) == [i \in 1..Len(s) |-> LowerChar(s[i])]

RECURSIVE LStrip(_)
LStrip(s) == IF s # <<>> /\ Head(s) = " " THEN LStrip(Tail(s)) ELSE s

RECURSIVE RStrip(_)
RStrip(s) ==
    IF s # <<>> /\ s[Len(s)] = " " THEN RStrip(SubSeq(s, 1, Len(s) - 1)) ELSE s

\* str.strip()
Strip(s) == RStrip(LStrip(s))

\* faulty variant: to_timedelta without the check of the value
to_timedelta_NoValueCheck(r) ==
    LET unit_key == Lower(Strip(r.unit)) IN
    IF unit_key \notin DOMAIN UNIT_SECONDS THEN [ok |-> FALSE, seconds |-> 0]
    ELSE [ok |-> TRUE, seconds |-> r.value * UNIT_SECONDS[unit_key]]

\* to_timedelta: ok = FALSE stands for the ValueError it raises
to_timedelta(r) ==
    LET unit_key == Lower(Strip(r.unit)) IN
    IF unit_key \notin DOMAIN UNIT_SECONDS THEN [ok |-> FALSE, seconds |-> 0]
    ELSE IF r.value <= 0 THEN [ok |-> FALSE, seconds |-> 0]
    ELSE [ok |-> TRUE, seconds |-> r.value * UNIT_SECONDS[unit_key]]

----------------------------------------------------------------------------
(* Paths and names *)

\* Path(backup_location).expanduser().resolve(): the directory a location
\* string names; a trailing slash names the same directory
Resolve(loc) ==
    CASE loc = "/b/" -> "/b"
      [] OTHER       -> loc

\* s.replace(old, new) for a one-token old
Replace(s, old, new) ==
    LET RECURSIVE R(_)
        R(x) == IF x = <<>> THEN <<>>
                ELSE (IF Head(x) = old THEN new ELSE <<Head(x)>>) \o R(Tail(x))
    IN R(s)

\* datetime.now().strftime("%Y-%m-%d_%H-%M-%S"): the date, "_", the time of day
Timestamp(now) == <<ToString(now \div 86400), "_", ToString(now % 86400)>>

\* safe_source of _build_output_path
SafeSource(url) ==
    Replace(Replace(Replace(url, "https://", <<>>), "http://", <<>>),
            "/", <<"_">>)

\* the filename of _build_output_path
BuildFileName(sys, url, now) ==
    sys.prefix \o <<"_", "backup", "_">> \o sys.db_name \o <<"_">>
        \o SafeSource(url) \o <<"_">> \o Timestamp(now) \o <<".zip">>

\* the pattern of cleanup_old_backups
SweepPattern(sys) ==
    sys.prefix \o <<"_", "backup", "_">> \o sys.db_name
        \o <<"_", "*", ".zip">>

\* Path.glob: "*" matches any run of characters within one path segment,
\* "/" separates the segments, every other token matches itself
RECURSIVE GlobMatch(_, _)
GlobMatch(pat, name) ==
    IF pat = <<>> THEN name = <<>>
    ELSE IF Head(pat) = "*"
         THEN \/ GlobMatch(Tail(pat), name)
              \/ /\ name # <<>>
                 /\ Head(name) # "/"
                 /\ GlobMatch(pat, Tail(name))
    ELSE /\ name # <<>>
         /\ Head(name) = Head(pat)
         /\ GlobMatch(Tail(pat), Tail(name))

\* the positions of "/" in a name
Slashes(name) == {i \in 1..Len(name) : name[i] = "/"}

\* a name directly inside the storage directory
TopLevel(name) == Slashes(name) = {}

\* the directory part of a name (<<>> for a top-level name)
Parent(name) ==
    IF TopLevel(name) THEN <<>>
    ELSE SubSeq(name, 1, (CHOOSE i \in Slashes(name) :
                              \A j \in Slashes(name) : j <= i) - 1)

\* the entry of the file system at (dir, name), as a set of zero or one
Lookup(files, dir, name) == {f \in files : f.dir = dir /\ f.name = name}

\* out_path.exists()
Exists(files, dir, name) == Lookup(files, dir, name) # {}

\* whether open(out_path, "wb") can create the file: its directory exists
CanCreate(files, ds, dir, name) ==
    /\ dir \in ds
    /\ \A f \in Lookup(files, dir, name) : f.kind = "file"
    /\ \/ TopLevel(name)
       \/ \E f \in Lookup(files, dir, Parent(name)) : f.kind = "dir"

\* the file system after out_path was written with `size` bytes at `now`
WriteFile(files, dir, name, size, now) ==
    (files \ Lookup(files, dir, name))
        \cup {[dir |-> dir, name |-> name, kind |-> "file",
               mtime |-> now, size |-> size]}

\* faulty variant: the except handler without the unlink
Unlink_Skipped(files, dir, name) == files

\* the file system after out_path.unlink()
Unlink(files, dir, name) == files \ Lookup(files, dir, name)

----------------------------------------------------------------------------
(* The configurations and the initial file system *)

\* source.url values (after rstrip("/"))
URLS == << <<"https://", "h1">>,
           <<"http://", "h2", "/", "eu">>,
           <<"https://", "h3">>,
           <<"https://", "h4">> >>

Sources(n) == SubSeq(URLS, 1, IF n < MaxSources THEN n ELSE MaxSources)

NoRetention == [present |-> FALSE, value |-> 0, unit |-> <<>>]

Retention(v, u) == [present |-> TRUE, value |-> v, unit |-> u]

System(prefix, db, loc, n, ret) ==
    [prefix |-> prefix, db_name |-> db, backup_location |-> loc,
     sources |-> Sources(n), retention |-> ret]

\* the systems a configuration is made of, in the order it lists them
Catalogue ==
    << System(<<"odoo">>, <<"prod">>, "/b", MaxSources, Retention(1, U_days)),
       System(<<"erp">>, <<"crm">>, "/c", 1, Retention(0, U_days)),
       System(<<"odoo">>, <<"prod", "_", "eu">>, "/b/", 1, NoRetention),
       System(<<"erp">>, <<"crm">>, "/c", 1,
              Retention(3, <<"w", "e", "e", "k", "s">>)),
       System(<<"sub", "/", "odoo">>, <<"prod">>, "/b", 1,
              Retention(2, <<" ", "H", "o", "u", "r", "s", " ">>)),
       System(<<"erp">>, <<"crm">>, "/c", 2, Retention(90, U_second)) >>

\* the increasing sequences of n indices of the catalogue
Picks(n) ==
    {p \in [1..n -> 1..Len(Catalogue)] : \A i \in 1..(n - 1) : p[i] < p[i + 1]}

\* the configurations: one to MaxTargets systems of the catalogue
Configs ==
    UNION { {[i \in 1..n |-> Catalogue[p[i]]] : p \in Picks(n)} :
            n \in 1..MaxTargets }

File(dir, name, kind, mtime, size) ==
    [dir |-> dir, name |-> name, kind |-> kind, mtime |-> mtime, size |-> size]

\* an artifact written at `t` by a system for the source `safe`
Artifact(dir, prefix, db, safe, t) ==
    File(dir, prefix \o <<"_", "backup", "_">> \o db \o <<"_">> \o safe
                \o <<"_">> \o Timestamp(t) \o <<".zip">>, "file", t, 4096)

\* What the storage directory /b holds when execute() starts; /c does not
\* exist.  The third artifact was written an hour before, when the local
\* time read as it reads now (the hour a clock set back repeats).
InitialFiles ==
    { Artifact("/b", <<"odoo">>, <<"prod">>, <<"h1">>, StartTime - 86400 - 60),
      Artifact("/b", <<"odoo">>, <<"prod">>, <<"h1">>, StartTime - 86400),
      [Artifact("/b", <<"odoo">>, <<"prod">>, <<"h1">>, StartTime)
          EXCEPT !.mtime = StartTime - 3600],
      Artifact("/b", <<"odoo">>, <<"prod", "_", "eu">>, <<"h1">>,
               StartTime - 10 * 86400),
      File("/b", <<"notes.txt">>, "file", StartTime - 30 * 86400, 10),
      File("/b", <<"odoo", "_", "backup", "_", "prod", "_", "old", ".zip">>,
           "dir", StartTime - 30 * 86400, 0),
      File("/b", <<"sub">>, "dir", StartTime - 30 * 86400, 0),
      Artifact("/b", <<"sub", "/", "odoo">>, <<"prod">>, <<"h1">>,
               StartTime - 3 * 3600) }

----------------------------------------------------------------------------
(* The state machine of execute() *)

Event(op, t, s, k) == [op |-> op, t |-> t, s |-> s, k |-> k]

\* what one call of cleanup_old_backups did: the system, the clock, the
\* file system before, the regular files the glob yielded, those unlinked,
\* those whose unlink raised OSError, and the printed counts
NoReport == [t |-> 0, now |-> 0, cutoff |-> 0, noop |-> TRUE, before |-> {},
             matched |-> {}, deleted |-> {}, failed |-> {}, ndeleted |-> 0,
             kept |-> 0]

Init ==
    /\ systems \in Configs
    /\ fs = InitialFiles
    /\ dirs = {"/b"}
    /\ clock = StartTime
    /\ pc = "cleanup"
    /\ ti = 1
    /\ si = 1
    /\ attempt = 0
    /\ out_path = None
    /\ exc = "none"
    /\ last_exc = "none"
    /\ raised = None
    /\ result = None
    /\ results = <<>>
    /\ report = NoReport
    /\ fs0 = InitialFiles
    /\ errs0 = 0
    /\ unlinkErrs = 0
    /\ trace = <<>>

system == systems[ti]

out_dir == Resolve(system.backup_location)

\* the files the glob of the sweep yields for a system
Globbed(files, sys) ==
    {f \in files : /\ f.dir = Resolve(sys.backup_location)
                   /\ GlobMatch(SweepPattern(sys), f.name)}

\* cleanup_old_backups returns at once: no retention, or no directory
CleanupNoop ==
    /\ pc = "cleanup"
    /\ \/ ~system.retention.present
       \/ /\ to_timedelta(system.retention).ok
          /\ out_dir \notin dirs
    /\ report' = [NoReport EXCEPT !.t = ti, !.now = clock, !.before = fs]
    /\ fs0' = fs
    /\ errs0' = unlinkErrs
    /\ si' = 1
    /\ pc' = "try_source"
    /\ trace' = Append(trace, Event("cleanup", ti, 0, 0))
    /\ UNCHANGED <<systems, fs, dirs, clock, ti, attempt, out_path, exc, last_exc,
                   raised, result, results, unlinkErrs>>

\* to_timedelta raises ValueError, which nothing in execute() catches
CleanupRaises ==
    /\ pc = "cleanup"
    /\ system.retention.present
    /\ ~to_timedelta(system.retention).ok
    /\ pc' = "crashed"
    /\ trace' = Append(trace, Event("cleanup_error", ti, 0, 0))
    /\ UNCHANGED <<systems, fs, dirs, clock, ti, si, attempt, out_path,
                   exc, last_exc, raised, result, results, report, fs0, errs0, unlinkErrs>>

\* faulty variant: mtime <= cutoff
Older_OrEqual(mtime, cutoff) == mtime <= cutoff

\* mtime < cutoff
Older(mtime, cutoff) == mtime < cutoff

\* faulty variant: an OSError of an unlink ends the sweep, before any unlink
Removed_AbortsOnFailure(expired, failed) ==
    IF failed = {} THEN expired ELSE {}

\* faulty variant: the loop of the sweep ends after its first unlink
Removed_OneOnly(expired, failed) ==
    IF expired \ failed = {} THEN {}
    ELSE {CHOOSE f \in expired \ failed : TRUE}

\* the files the loop of the sweep unlinks: the expired ones, but for those
\* whose unlink raises OSError
Removed(expired, failed) == expired \ failed

\* the sweep: every globbed regular file older than the cutoff is unlinked;
\* the unlink of the files in `failed` raises OSError
CleanupSweep ==
    /\ pc = "cleanup"
    /\ system.retention.present
    /\ to_timedelta(system.retention).ok
    /\ out_dir \in dirs
    /\ LET cutoff  == clock - to_timedelta(system.retention).seconds
           matched == {f \in Globbed(fs, system) : f.kind = "file"}
           expired == {f \in matched : Older(f.mtime, cutoff)}
       IN \E failed \in SUBSET expired :
            /\ unlinkErrs + Cardinality(failed) <= MaxUnlinkFailures
            /\ fs' = fs \ Removed(expired, failed)
            /\ unlinkErrs' = unlinkErrs + Cardinality(failed)
            /\ report' = [t |-> ti, now |-> clock, cutoff |-> cutoff,
                          noop |-> FALSE,
                          before |-> fs, matched |-> matched,
                          deleted |-> Removed(expired, failed),
                          failed |-> failed,
                          ndeleted |-> Cardinality(Removed(expired, failed)),
                          kept |-> Cardinality(matched \ expired)]
            /\ fs0' = fs'
            /\ errs0' = unlinkErrs'
    /\ si' = 1
    /\ pc' = "try_source"
    /\ trace' = Append(trace, Event("cleanup", ti, 0, 0))
    /\ UNCHANGED <<systems, dirs, clock, ti, attempt, out_path, exc, last_exc,
                   raised, result, results>>

\* backup_db_with_failover: the sources are used up, it returns None
FailoverExhausted ==
    /\ pc = "try_source"
    /\ si > Len(system.sources)
    /\ result' = None
    /\ pc' = "report"
    /\ UNCHANGED <<systems, fs, dirs, clock, ti, si, attempt, out_path, exc,
                   last_exc, raised, results, report, fs0, errs0, unlinkErrs, trace>>

\* backup_db_with_failover: the next source; _build_output_path makes the
\* directory and the name, _download_backup starts
BuildOutputPath ==
    /\ pc = "try_source"
    /\ si <= Len(system.sources)
    /\ dirs' = dirs \cup {out_dir}
    /\ out_path' = BuildFileName(system, system.sources[si], clock)
    /\ attempt' = 1
    /\ last_exc' = "none"
    /\ pc' = "post"
    /\ trace' = Append(trace, Event("build", ti, si, clock))
    /\ UNCHANGED <<systems, fs, clock, ti, si, exc, raised, result, results,
                   report, fs0, errs0, unlinkErrs>>

\* one HTTP attempt fails before anything is written: requests.post raises,
\* raise_for_status raises, or open() raises
PostFails ==
    /\ pc = "post"
    /\ \/ exc' \in {"net", "status"}
       \/ /\ ~CanCreate(fs, dirs, out_dir, out_path)
          /\ exc' = "open"
    /\ pc' = "except"
    /\ trace' = Append(trace, Event("post", ti, si, attempt))
    /\ UNCHANGED <<systems, fs, dirs, clock, ti, si, attempt, out_path,
                   last_exc, raised, result, results, report, fs0, errs0, unlinkErrs>>

\* one HTTP attempt: the body is streamed into out_path and the stream
\* breaks, leaving a part of it
PostStreamBreaks ==
    /\ pc = "post"
    /\ CanCreate(fs, dirs, out_dir, out_path)
    /\ fs' = WriteFile(fs, out_dir, out_path, MinBackupSize - 1, clock)
    /\ exc' = "stream"
    /\ pc' = "except"
    /\ trace' = Append(trace, Event("post", ti, si, attempt))
    /\ UNCHANGED <<systems, dirs, clock, ti, si, attempt, out_path, last_exc,
                   raised, result, results, report, fs0, errs0, unlinkErrs>>

\* the sizes of the bodies the server of a source sends: one byte short of
\* the least size, or a whole backup, which is of exactly the least size
\* but for the second server, whose backups are one byte longer
BodySizes(url) ==
    IF url = URLS[2]
    THEN {MinBackupSize - 1, MinBackupSize + 1}
    ELSE {MinBackupSize - 1, MinBackupSize}

\* one HTTP attempt: the whole body is written to out_path.  The clock of
\* the model advances in the sleeps only: a transfer ends within the second
\* it started in.
PostWrites ==
    /\ pc = "post"
    /\ CanCreate(fs, dirs, out_dir, out_path)
    /\ \E size \in BodySizes(system.sources[si]) :
         fs' = WriteFile(fs, out_dir, out_path, size, clock)
    /\ pc' = "check"
    /\ trace' = Append(trace, Event("post", ti, si, attempt))
    /\ UNCHANGED <<systems, dirs, clock, ti, si, attempt, out_path, exc,
                   last_exc, raised, result, results, report, fs0, errs0, unlinkErrs>>

\* out_path.stat().st_size
StatSize(files, dir, name) ==
    (CHOOSE f \in Lookup(files, dir, name) : TRUE).size

\* faulty variant: st_size <= 1024
TooSmall_OrEqual(size) == size <= MinBackupSize

\* the size check of _download_backup
TooSmall(size) == size < MinBackupSize

\* the size check fails: RuntimeError("Backup file too small")
CheckTooSmall ==
    /\ pc = "check"
    /\ TooSmall(StatSize(fs, out_dir, out_path))
    /\ exc' = "small"
    /\ pc' = "except"
    /\ UNCHANGED <<systems, fs, dirs, clock, ti, si, attempt, out_path,
                   last_exc, raised, result, results, report, fs0, errs0, unlinkErrs,
                   trace>>

\* faulty variant: the failover without the return in its loop: after a
\* success it goes on with the next source
CheckOk_NoReturn ==
    /\ pc = "check"
    /\ ~TooSmall(StatSize(fs, out_dir, out_path))
    /\ result' = out_path
    /\ last_exc' = "none"
    /\ si' = si + 1
    /\ pc' = "try_source"
    /\ trace' = Append(trace, Event("success", ti, si, attempt))
    /\ UNCHANGED <<systems, fs, dirs, clock, ti, attempt, out_path, exc,
                   raised, results, report, fs0, errs0, unlinkErrs>>

\* the size check passes: _download_backup returns, the failover prints
\* SUCCESS and returns out_path
CheckOk ==
    /\ pc = "check"
    /\ ~TooSmall(StatSize(fs, out_dir, out_path))
    /\ result' = out_path
    /\ last_exc' = "none"
    /\ pc' = "report"
    /\ trace' = Append(trace, Event("success", ti, si, attempt))
    /\ UNCHANGED <<systems, fs, dirs, clock, ti, si, attempt, out_path, exc,
                   raised, results, report, fs0, errs0, unlinkErrs>>

\* faulty variant: 2 * attempt
Backoff_Linear(k) == 2 * k

\* 2 ** attempt
Backoff(k) == 2 ^ k

\* last_exc = exc
RecordExc(last, e) == e

\* the rest of the except handler after the unlink: the sleep, then the
\* next attempt or, after the last one, the RuntimeError carrying last_exc
\* (last_exc is a local of _download_backup: it ends with the call)
AfterUnlink ==
    /\ exc' = "none"
    /\ clock' = clock + Backoff(attempt)
    /\ IF attempt < MaxAttempts
       THEN /\ last_exc' = RecordExc(last_exc, exc)
            /\ attempt' = attempt + 1
            /\ pc' = "post"
            /\ UNCHANGED raised
       ELSE /\ raised' = [t |-> ti, s |-> si,
                          exc |-> RecordExc(last_exc, exc)]
            /\ last_exc' = "none"
            /\ pc' = "failed"
            /\ UNCHANGED attempt

\* the except handler: nothing at out_path, or the unlink succeeds
ExceptUnlinks ==
    /\ pc = "except"
    /\ fs' = Unlink(fs, out_dir, out_path)
    /\ trace' = Append(trace, Event("sleep", ti, si, attempt))
    /\ AfterUnlink
    /\ UNCHANGED <<systems, dirs, ti, si, out_path, result, results,
                   report, fs0, errs0, unlinkErrs>>

\* the except handler: the unlink raises OSError, which is passed over
ExceptUnlinkFails ==
    /\ pc = "except"
    /\ Exists(fs, out_dir, out_path)
    /\ unlinkErrs < MaxUnlinkFailures
    /\ unlinkErrs' = unlinkErrs + 1
    /\ trace' = Append(trace, Event("sleep", ti, si, attempt))
    /\ AfterUnlink
    /\ UNCHANGED <<systems, fs, dirs, ti, si, out_path, result, results,
                   report, fs0, errs0>>

\* faulty variant: the failover gives up after the first source that failed
FailoverCatches_GivesUp ==
    /\ pc = "failed"
    /\ raised' = None
    /\ si' = Len(system.sources) + 1
    /\ pc' = "try_source"
    /\ trace' = Append(trace, Event("failed", ti, si, 0))
    /\ UNCHANGED <<systems, fs, dirs, clock, ti, attempt, out_path, exc,
                   last_exc, result, results, report, fs0, errs0, unlinkErrs>>

\* backup_db_with_failover catches the failure of the source, prints it and
\* goes on with the next source
FailoverCatches ==
    /\ pc = "failed"
    /\ raised' = None
    /\ si' = si + 1
    /\ pc' = "try_source"
    /\ trace' = Append(trace, Event("failed", ti, si, 0))
    /\ UNCHANGED <<systems, fs, dirs, clock, ti, attempt, out_path, exc,
                   last_exc, result, results, report, fs0, errs0, unlinkErrs>>

\* faulty variant: execute() without the cleanup of the systems after the first
Report_SkipsCleanup ==
    /\ pc = "report"
    /\ results' = Append(results, result)
    /\ trace' = Append(trace, Event("result", ti, 0, 0))
    /\ IF ti < Len(systems)
       THEN /\ ti' = ti + 1
            /\ si' = 1
            /\ pc' = "try_source"
       ELSE /\ pc' = "done"
            /\ UNCHANGED <<ti, si>>
    /\ UNCHANGED <<systems, fs, dirs, clock, attempt, out_path, exc,
                   last_exc, raised, result, report, fs0, errs0, unlinkErrs>>

\* execute(): the FINAL RESULT line of the system, then the next system
Report ==
    /\ pc = "report"
    /\ results' = Append(results, result)
    /\ trace' = Append(trace, Event("result", ti, 0, 0))
    /\ IF ti < Len(systems)
       THEN /\ ti' = ti + 1
            /\ pc' = "cleanup"
       ELSE /\ pc' = "done"
            /\ UNCHANGED ti
    /\ UNCHANGED <<systems, fs, dirs, clock, si, attempt, out_path, exc,
                   last_exc, raised, result, report, fs0, errs0, unlinkErrs>>

Next ==
    \/ CleanupNoop
    \/ CleanupRaises
    \/ CleanupSweep
    \/ FailoverExhausted
    \/ BuildOutputPath
    \/ PostFails
    \/ PostStreamBreaks
    \/ PostWrites
    \/ CheckTooSmall
    \/ CheckOk
    \/ ExceptUnlinks
    \/ ExceptUnlinkFails
    \/ FailoverCatches
    \/ Report

Spec == Init /\ [][Next]_vars

\* execute() runs in one thread that is not held up: every HTTP attempt,
\* every file operation and every sleep returns, so a step that can be
\* taken is taken
FairSpec == Init /\ [][Next]_vars /\ WF_vars(Next)

----------------------------------------------------------------------------
(* cleanup_old_backups on its own: one system, any retention rule, called  *)
(* twice in succession                                                     *)

\* the largest value of a retention rule
MaxAmount == 2
\* at most this many seconds pass between the two calls
MaxGap == 1

\* unit strings of a configuration: the keys of UNIT_SECONDS, and strings
\* that are none of them
Units ==
    { U_second, U_seconds, U_minute, U_minutes, U_hour, U_hours, U_day, U_days,
      <<"w", "e", "e", "k", "s">>, <<"D", "A", "Y", "S">>,
      <<" ", "H", "o", "u", "r", "s", " ">>, <<>> }

\* what from_dict makes of the retention entry of a system
RetentionRules ==
    {NoRetention} \cup {Retention(v, u) : v \in (-1)..MaxAmount, u \in Units}

\* a system of the catalogue that keeps its files in /b or in /c, with any
\* retention rule
SweepSystems ==
    {[Catalogue[i] EXCEPT !.retention = r] : i \in {1, 5, 6},
                                            r \in RetentionRules}

SweepInit ==
    /\ systems \in {<<sys>> : sys \in SweepSystems}
    /\ fs = InitialFiles
    /\ dirs = {"/b"}
    /\ clock = StartTime
    /\ pc = "cleanup"
    /\ ti = 1
    /\ si = 1
    /\ attempt = 0
    /\ out_path = None
    /\ exc = "none"
    /\ last_exc = "none"
    /\ raised = None
    /\ result = None
    /\ results = <<>>
    /\ report = NoReport
    /\ fs0 = InitialFiles
    /\ errs0 = 0
    /\ unlinkErrs = 0
    /\ trace = <<>>

\* cleanup_old_backups has returned and is called again for the same system
SweepAgain ==
    /\ pc = "try_source"
    /\ Len(trace) = 1
    /\ \E gap \in 0..MaxGap : clock' = clock + gap
    /\ pc' = "cleanup"
    /\ UNCHANGED <<systems, fs, dirs, ti, si, attempt, out_path, exc, last_exc,
                   raised, result, results, report, fs0, errs0, unlinkErrs,
                   trace>>

SweepNext ==
    \/ CleanupNoop
    \/ CleanupRaises
    \/ CleanupSweep
    \/ SweepAgain

SweepSpec == SweepInit /\ [][SweepNext]_vars

----------------------------------------------------------------------------
(* What the trace tells *)

(***************************************************************************)
(* Every step appends at most one event, so every event of the trace is    *)
(* the newest event of the state its step leads to.  A condition on the    *)
(* newest event and the events before it, checked in every reachable       *)
(* state, is therefore checked for every event of every run.               *)
(***************************************************************************)

Idx == 1..Len(trace)

Newest == trace[Len(trace)]

Happened(e) == \E i \in Idx : trace[i] = e

\* the positions of the events `op` of source s of system t
At(op, t, s) ==
    {i \in Idx : trace[i].op = op /\ trace[i].t = t /\ trace[i].s = s}

\* an event `op` of source s of system t is in the trace
Some(op, t, s) ==
    \E i \in Idx : trace[i].op = op /\ trace[i].t = t /\ trace[i].s = s

\* the sources of system t that _download_backup was called for
Contacted(t) == {s \in 1..Len(systems[t].sources) : Some("build", t, s)}

\* the sources of system t whose download raised
FailedSources(t) == {s \in 1..Len(systems[t].sources) : Some("failed", t, s)}

\* the sources of system t whose download returned
SucceededSources(t) ==
    {s \in 1..Len(systems[t].sources) : Some("success", t, s)}

\* the path _build_output_path made for source s of system t
BuiltPath(t, s) ==
    LET b == CHOOSE i \in At("build", t, s) : TRUE
    IN BuildFileName(systems[t], systems[t].sources[s], trace[b].k)

\* execute() has ended: it returned, or an exception left it
RunEnded == pc \in {"done", "crashed"}

----------------------------------------------------------------------------
(* C1 *)

\* C1: backup_db_with_failover tries the sources of a system strictly in
\* list order and stops at the first source whose download succeeds: a
\* source is contacted only when every source before it has failed and
\* none has succeeded, it is contacted once, and the path the failover
\* returns is the one built for the succeeding source (None without one).
C1_FailoverInListOrder ==
    /\ (trace # <<>> /\ Newest.op \in {"build", "post"}) =>
         /\ FailedSources(Newest.t) = 1..(Newest.s - 1)
         /\ SucceededSources(Newest.t) = {}
         /\ Cardinality(At("build", Newest.t, Newest.s)) = 1
    /\ pc = "report" =>
         /\ Cardinality(SucceededSources(ti)) <= 1
         /\ result = None <=> SucceededSources(ti) = {}
         /\ result = None => FailedSources(ti) = 1..Len(system.sources)
         /\ \A s \in SucceededSources(ti) :
              /\ result = BuiltPath(ti, s)
              /\ FailedSources(ti) = 1..(s - 1)
              /\ Contacted(ti) = 1..s

\* three sources, the first two have failed and the third has succeeded
C1_Witness ==
    /\ pc = "report"
    /\ Len(system.sources) = 3
    /\ FailedSources(ti) = {1, 2}
    /\ SucceededSources(ti) = {3}
    /\ result = BuiltPath(ti, 3)

----------------------------------------------------------------------------
(* C2 *)

\* the attempts of one source are numbered 1, 2, 3 in order, none is made
\* after the source succeeded or failed, and a source fails once, after
\* three attempts
C2_Attempts ==
    trace # <<>> =>
      /\ Newest.op = "post" =>
           /\ Newest.k \in 1..3
           /\ Cardinality(At("post", Newest.t, Newest.s)) = Newest.k
           /\ {trace[j].k : j \in At("post", Newest.t, Newest.s)} = 1..Newest.k
           /\ ~Some("success", Newest.t, Newest.s)
      /\ Newest.op \in {"build", "post"} =>
           ~Some("failed", Newest.t, Newest.s)
      /\ Newest.op = "failed" =>
           /\ Cardinality(At("post", Newest.t, Newest.s)) = 3
           /\ Cardinality(At("failed", Newest.t, Newest.s)) = 1

\* C2: _download_backup issues at most 3 HTTP attempts per source and none
\* after one succeeds; after the third failed attempt it raises one failure
\* that carries the error of that attempt, the failover goes on with the
\* next source and the exhausted source is not contacted again.
C2_ThreeAttemptsThenNextSource ==
    [][/\ C2_Attempts'
       /\ (pc = "except" /\ pc' = "failed") =>
            /\ attempt = 3
            /\ raised' = [t |-> ti, s |-> si, exc |-> exc]
       /\ pc = "failed" => (pc' = "try_source" /\ si' = si + 1)]_vars

\* the first source has failed after three attempts, the last of them for
\* a file that was too small
C2_Witness ==
    /\ pc = "failed"
    /\ si = 1
    /\ raised = [t |-> ti, s |-> 1, exc |-> "small"]
    /\ Cardinality(At("post", ti, 1)) = 3

----------------------------------------------------------------------------
(* C3 *)

\* C3 as claimed: after _download_backup has raised for a source, no file
\* is at the source's out_path
C3_Original ==
    pc = "failed" => ~Exists(fs, out_dir, out_path)

\* C3, amended: when _download_backup raises for a source, a file is at the
\* source's out_path only if the unlink of the third attempt's except
\* handler raised OSError (which the handler passes over).
C3_NoPartialFileUnlessUnlinkFailed ==
    [][(pc = "except" /\ pc' = "failed") =>
         (Exists(fs', out_dir, out_path) =>
            /\ Exists(fs, out_dir, out_path)
            /\ unlinkErrs' = unlinkErrs + 1)]_vars

\* the download has raised after a third attempt that had written a file,
\* and nothing is at out_path
C3_Witness ==
    /\ pc = "failed"
    /\ raised.exc \in {"small", "stream"}
    /\ ~Exists(fs, out_dir, out_path)

----------------------------------------------------------------------------
(* C4, C5 *)

\* the directory of system t
DirOf(t) == Resolve(systems[t].backup_location)

\* a name _build_output_path makes for the system from one of its sources
IsArtifactOf(sys, name) ==
    \E i \in 1..Len(sys.sources) :
      LET h == sys.prefix \o <<"_", "backup", "_">> \o sys.db_name \o <<"_">>
                 \o SafeSource(sys.sources[i]) \o <<"_">>
      IN /\ Len(name) = Len(h) + 4
         /\ SubSeq(name, 1, Len(h)) = h
         /\ name[Len(h) + 2] = "_"
         /\ name[Len(name)] = ".zip"

\* C4 as claimed: the sweep of one system deletes no artifact of another
\* configured system that has the same storage directory.
C4_Original ==
    ~report.noop =>
      \A f \in report.deleted :
        ~ \E j \in 1..Len(systems) :
            /\ j # report.t
            /\ DirOf(j) = DirOf(report.t)
            /\ IsArtifactOf(systems[j], f.name)
            /\ ~IsArtifactOf(systems[report.t], f.name)

\* C5 as claimed: whatever was in the file system before a sweep and has a
\* name that does not match the swept system's pattern, or is not at the
\* top level of its storage directory, is there after the sweep.
C5_Original ==
    ~report.noop =>
      \A f \in report.before :
        (\/ f.dir # DirOf(report.t)
         \/ ~GlobMatch(SweepPattern(systems[report.t]), f.name)
         \/ ~TopLevel(f.name)) => f \notin report.deleted

----------------------------------------------------------------------------
(* C6, C7 *)

InvalidRetention(t) ==
    /\ systems[t].retention.present
    /\ ~to_timedelta(systems[t].retention).ok

\* every source of system t failed and the failover returned None
Exhausted(t) ==
    /\ t <= Len(results)
    /\ results[t] = None
    /\ FailedSources(t) = 1..Len(systems[t].sources)

\* C6 as claimed: when execute() has ended, every system after one whose
\* sources all failed has had its sweep and its failover, with success and
\* a path reported if one of its sources succeeded.
C6_Original ==
    RunEnded =>
      \A i \in 1..Len(systems) : Exhausted(i) =>
        \A j \in (i + 1)..Len(systems) :
          /\ Happened(Event("cleanup", j, 0, 0))
          /\ Happened(Event("result", j, 0, 0))
          /\ results[j] # None <=> SucceededSources(j) # {}

\* C7 as claimed: when execute() has ended, a system with an invalid
\* retention rule has had its failover, and every system after it its
\* sweep and its failover.
C7_Original ==
    RunEnded =>
      \A t \in 1..Len(systems) : InvalidRetention(t) =>
        \A j \in t..Len(systems) :
          /\ Happened(Event("result", j, 0, 0))
          /\ j > t => \/ Happened(Event("cleanup", j, 0, 0))
                      \/ Happened(Event("cleanup_error", j, 0, 0))

----------------------------------------------------------------------------
(* C8 *)

\* C8: execute() handles the systems one at a time in the order of the
\* configuration, the sweep of a system has completed before anything of
\* its failover happens, and a download starts only when no other is going
\* on.  Stated on the newest event and the one before it, so for every two
\* adjacent events of every run: the first event is the sweep of system 1;
\* the system changes only from the result of system t to the sweep of
\* system t + 1; a download starts only after the sweep or after the
\* failure of another download; every further event of a download follows
\* an event of the same download; the result follows the end of a download.
C8_OneSystemAtATimeSweepFirst ==
    trace # <<>> =>
      LET new == Newest
          sweeping == new.op \in {"cleanup", "cleanup_error"}
      IN IF Len(trace) = 1
         THEN sweeping /\ new.t = 1
         ELSE LET prev == trace[Len(trace) - 1]
              IN /\ IF prev.op = "result"
                    THEN sweeping /\ new.t = prev.t + 1
                    ELSE ~sweeping /\ new.t = prev.t
                 /\ new.op = "build" => prev.op \in {"cleanup", "failed"}
                 /\ new.op \in {"post", "sleep", "success", "failed"} =>
                      /\ prev.op \in {"build", "post", "sleep"}
                      /\ prev.s = new.s
                 /\ new.op = "result" => prev.op \in {"success", "failed"}

\* execute() has returned after two systems, each swept and with a download
C8_Witness ==
    /\ pc = "done"
    /\ Len(systems) = 2
    /\ \A t \in 1..2 : /\ Happened(Event("cleanup", t, 0, 0))
                       /\ Contacted(t) # {}
                       /\ Happened(Event("result", t, 0, 0))
    /\ ~report.noop

----------------------------------------------------------------------------
(* C9 *)

\* C9 as claimed: no file that is not a validated download has a name that
\* the sweep pattern of a configured system matches: none that is smaller
\* than the least size, none that is written and not yet checked.
C9_Original ==
    \A f \in fs : \A t \in 1..Len(systems) :
      (/\ f.kind = "file"
       /\ f.dir = DirOf(t)
       /\ GlobMatch(SweepPattern(systems[t]), f.name))
        => /\ ~TooSmall(f.size)
           /\ ~(pc = "check" /\ f.dir = out_dir /\ f.name = out_path)

----------------------------------------------------------------------------
(* C10 *)

\* the files of the storage directory of system ti that were not there when
\* its failover started
Added == {f \in fs : f.dir = out_dir /\ ~Exists(fs0, f.dir, f.name)}

----------------------------------------------------------------------------
(* C11 *)

\* the step that is the second call of cleanup_old_backups
SecondSweep == pc = "cleanup" /\ Len(trace) = 1 /\ pc' = "try_source"

----------------------------------------------------------------------------
(* C12 *)

\* cleanup_old_backups has just returned from a sweep of system ti
Swept == pc = "try_source" /\ si = 1 /\ report.t = ti /\ ~report.noop

\* the regular files of the directory that matched the pattern of system ti
\* when the sweep started
MatchingFiles == {f \in Globbed(report.before, system) : f.kind = "file"}

\* now - retention, for the sweep that has just returned
Cutoff == clock - to_timedelta(system.retention).seconds

\* C12 as claimed: a matching regular file is deleted by the sweep if and
\* only if its mtime is strictly older than the cutoff; the others are kept
\* and counted as kept.
C12_Original ==
    Swept =>
      /\ \A f \in MatchingFiles : f \notin fs <=> f.mtime < Cutoff
      /\ report.kept = Cardinality({f \in MatchingFiles : f.mtime >= Cutoff})

\* C12, amended: a matching regular file is deleted by the sweep only if its
\* mtime is strictly older than the cutoff, and every such file is deleted
\* unless its unlink raised OSError; a file whose mtime is the cutoff or
\* newer is kept and counted as kept, and only those are counted.
C12_DeletesStrictlyOlder ==
    Swept =>
      /\ \A f \in MatchingFiles :
           /\ f \notin fs => f.mtime < Cutoff
           /\ f.mtime < Cutoff => (f \notin fs \/ f \in report.failed)
           /\ f \in report.failed => f \in fs
      /\ report.kept = Cardinality({f \in MatchingFiles : f.mtime >= Cutoff})

\* a sweep has deleted a file and kept one whose mtime is the cutoff
C12_Witness ==
    /\ Swept
    /\ \E f \in MatchingFiles : f.mtime = Cutoff /\ f \in fs
    /\ \E f \in MatchingFiles : f.mtime < Cutoff /\ f \notin fs
    /\ report.kept >= 1

----------------------------------------------------------------------------
(* C13 *)

\* cleanup_old_backups has just returned for system ti
Cleaned == pc = "try_source" /\ si = 1 /\ report.t = ti

\* C13 as claimed: for a system without a retention rule, or whose storage
\* directory does not exist, cleanup_old_backups raises no error, and when
\* it has returned it has deleted nothing, created nothing and counted
\* nothing.
C13_Original ==
    (~system.retention.present \/ out_dir \notin dirs) =>
      /\ pc # "crashed"
      /\ Cleaned => /\ report.noop
                    /\ fs = report.before
                    /\ report.ndeleted = 0
                    /\ report.kept = 0

----------------------------------------------------------------------------
(* C14 *)

\* C14: an unlink that raises OSError does not end the sweep: every matching
\* regular file is examined, so that each is deleted, failed or counted as
\* kept, and every expired file but those whose unlink raised is deleted.
C14_FailureDoesNotAbortSweep ==
    Swept =>
      /\ \A f \in MatchingFiles :
           (f.mtime < Cutoff /\ f \notin report.failed) => f \notin fs
      /\ report.failed \subseteq {f \in MatchingFiles : f.mtime < Cutoff}
      /\ report.ndeleted + Cardinality(report.failed) + report.kept
           = Cardinality(MatchingFiles)

\* a sweep in which one unlink raised, another file was deleted and a third
\* was kept
C14_Witness ==
    /\ Swept
    /\ report.failed # {}
    /\ \E f \in MatchingFiles : f.mtime < Cutoff /\ f \notin fs
    /\ report.kept >= 1

----------------------------------------------------------------------------
(* C20 *)

\* C20 as claimed: after a sweep, deleted + kept is the number of matching
\* regular files, deleted is the number of files removed, and kept is the
\* number of matching regular files that are still there.
C20_Original ==
    Swept =>
      /\ report.ndeleted + report.kept = Cardinality(MatchingFiles)
      /\ report.ndeleted = Cardinality(report.before \ fs)
      /\ report.kept =
           Cardinality({f \in Globbed(fs, system) : f.kind = "file"})

----------------------------------------------------------------------------
(* C15 *)

\* the size check: a file smaller than 1024 bytes makes the attempt fail, a
\* file of 1024 bytes or more is the success of the download
C15_SizeCheck ==
    pc = "check" =>
      LET size == StatSize(fs, out_dir, out_path)
      IN /\ size < 1024 => (pc' = "except" /\ exc' = "small")
         /\ size >= 1024 => /\ pc' = "report"
                            /\ result' = out_path
                            /\ fs' = fs

\* the attempt that failed for its size counts as one of the three
C15_Counts ==
    (pc = "except" /\ exc = "small") =>
      IF attempt < 3
      THEN pc' = "post" /\ attempt' = attempt + 1
      ELSE pc' = "failed"

\* C15 as claimed: a written file smaller than 1024 bytes makes the attempt
\* a failed one, the file is removed and the attempt counts as one of the
\* three; a file of 1024 bytes or more is accepted.
C15_Original ==
    [][/\ C15_SizeCheck
       /\ C15_Counts
       /\ (pc = "except" /\ exc = "small") =>
            ~Exists(fs', out_dir, out_path)]_vars

\* C15, amended: as claimed, but the file is removed unless its unlink
\* raised OSError, which the handler passes over: then the file stays.
C15_SmallFileIsFailedAttempt ==
    [][/\ C15_SizeCheck
       /\ C15_Counts
       /\ (pc = "except" /\ exc = "small") =>
            \/ ~Exists(fs', out_dir, out_path)
            \/ (fs' = fs /\ unlinkErrs' = unlinkErrs + 1)]_vars

\* the first attempt wrote a file that was too small: the file is gone
\* and the second attempt is about to start
C15_Witness ==
    /\ pc = "post"
    /\ attempt = 2
    /\ last_exc = "small"
    /\ ~Exists(fs, out_dir, out_path)

----------------------------------------------------------------------------
(* C16 *)

\* the seconds gone since _download_backup was called for source si
Delay == clock - trace[CHOOSE i \in At("build", ti, si) : TRUE].k

\* 2 + ... + 2^(k - 1): the waits after the failed attempts before attempt k
WaitsBefore(k) ==
    CASE k = 1 -> 0
      [] k = 2 -> 2
      [] k = 3 -> 2 + 4

\* the wait after the failed attempt k is 2^k seconds, and a download that
\* succeeds at attempt k has waited after the attempts before it
C16_Waits ==
    /\ pc = "except" =>
         clock' - clock = (CASE attempt = 1 -> 2 [] attempt = 2 -> 4
                             [] attempt = 3 -> 8)
    /\ (pc = "check" /\ pc' = "report") => Delay' = WaitsBefore(attempt)

\* C16 as claimed: the downloader waits 2^k seconds after the failed attempt
\* k, the delay of one source is the sum of the waits after its failed
\* attempts that are followed by another try, and it is at most 14 seconds.
C16_Original ==
    [][/\ C16_Waits
       /\ (pc = "except" /\ pc' = "failed") =>
            (Delay' = 2 + 4 /\ Delay' <= 14)]_vars

\* C16, amended: the downloader waits 2^k seconds after every failed attempt
\* k, the third included although no try follows it; the delay of one
\* source is the sum of the waits after all its failed attempts, 2 + 4 + 8 =
\* 14 seconds for a source that fails and less for one that succeeds.
C16_WaitsAfterEveryFailedAttempt ==
    [][/\ C16_Waits
       /\ (pc = "except" /\ pc' = "failed") => Delay' = 2 + 4 + 8
       /\ (pc = "check" /\ pc' = "report") => Delay' < 14]_vars

\* a source has failed its three attempts, 14 seconds after its first
C16_Witness ==
    /\ pc = "failed"
    /\ attempt = 3
    /\ Delay = 14

----------------------------------------------------------------------------
(* C17 *)

\* the number of seconds of the units the spec lists
ListedSeconds(u) ==
    CASE u \in {<<"s","e","c","o","n","d">>, <<"s","e","c","o","n","d","s">>} -> 1
      [] u \in {<<"m","i","n","u","t","e">>, <<"m","i","n","u","t","e","s">>} -> 60
      [] u \in {<<"h","o","u","r">>, <<"h","o","u","r","s">>} -> 3600
      [] u \in {<<"d","a","y">>, <<"d","a","y","s">>} -> 86400
      [] OTHER -> 0

\* the unit string without the blanks around it and in lower case, for the
\* unit strings of Units
Normalised(u) ==
    CASE u = <<"D", "A", "Y", "S">> -> <<"d", "a", "y", "s">>
      [] u = <<" ", "H", "o", "u", "r", "s", " ">> -> <<"h", "o", "u", "r", "s">>
      [] OTHER -> u

\* what the claim says of the conversion of a rule with value v whose unit
\* is read as u, seen at the call of cleanup_old_backups: the ValueError
\* leaves the call, and the cutoff of a sweep is now - v * seconds of u
Converts(v, u) ==
    pc = "cleanup" /\ system.retention.present =>
      IF v <= 0 \/ ListedSeconds(u) = 0
      THEN pc' = "crashed"
      ELSE /\ pc' = "try_source"
           /\ ~report'.noop => report'.cutoff = clock - v * ListedSeconds(u)

\* C17 as claimed: to_timedelta fails for a value of 0 or less and for every
\* unit string that is not one of second(s), minute(s), hour(s), day(s); for
\* a positive value and one of these units it yields value times the
\* seconds of the unit.
C17_Original ==
    [][Converts(system.retention.value, system.retention.unit)]_vars

\* C17, amended: as claimed, for the unit string with the blanks around it
\* removed and in lower case.
C17_ConvertsNormalisedUnit ==
    [][Converts(system.retention.value,
                Normalised(system.retention.unit))]_vars

\* a sweep under the rule 2 " Hours ": its cutoff is two hours back
C17_Witness ==
    /\ Swept
    /\ system.retention.value = 2
    /\ system.retention.unit = <<" ", "H", "o", "u", "r", "s", " ">>
    /\ report.cutoff = clock - 7200

----------------------------------------------------------------------------
(* C18 *)

\* every source of system ti was called once, made three attempts and
\* failed, one source after the other in the order of the list
AllFailedInOrder ==
    /\ \A s \in 1..Len(system.sources) :
         /\ Cardinality(At("build", ti, s)) = 1
         /\ Cardinality(At("post", ti, s)) = 3
         /\ Cardinality(At("failed", ti, s)) = 1
    /\ \A s \in 1..(Len(system.sources) - 1) :
         \A i \in At("failed", ti, s) : \A j \in At("build", ti, s + 1) : i < j

\* the failover of system ti returns None exactly when every source made
\* three attempts and failed, and then the sources were tried in order, once
C18_NoneIffAllFailed ==
    /\ result = None <=>
         \A s \in 1..Len(system.sources) :
           Some("failed", ti, s) /\ Cardinality(At("post", ti, s)) = 3
    /\ result = None => AllFailedInOrder

----------------------------------------------------------------------------
(* C19 *)

\* the number of sources of the systems t..Len(systems)
RECURSIVE SourcesFrom(_)
SourcesFrom(t) ==
    IF t > Len(systems) THEN 0
    ELSE Len(systems[t].sources) + SourcesFrom(t + 1)

\* the HTTP attempts made so far
Posts == {i \in Idx : trace[i].op = "post"}

\* C19: execute() ends (it returns, or an exception leaves it), and when it
\* has ended it has made at most 3 HTTP attempts for each source of the
\* configuration.
C19_EndsWithinAttemptBudget ==
    /\ <>RunEnded
    /\ [](RunEnded => Cardinality(Posts) <= 3 * SourcesFrom(1))

\* execute() has returned after every source of two systems used up its
\* three attempts
C19_Witness ==
    /\ pc = "done"
    /\ Len(systems) = 2
    /\ SourcesFrom(1) >= 3
    /\ Cardinality(Posts) = 3 * SourcesFrom(1)

====
